---- MODULE Spec2Model ----
(***************************************************************************)
(* Model of the ESLint rule no-cross-internal-imports                      *)
(* (src/rules/no-cross-internal-imports.js).                               *)
(*                                                                         *)
(* The source file holds three successive versions of the rule.  A run of  *)
(* the model loads one of them (variant), lints a file (filename) and      *)
(* visits import-like nodes; each visit records the diagnostics the        *)
(* handler passed to context.report (reports).                             *)
(*                                                                         *)
(* JavaScript strings are sequences of one-character strings, so that      *)
(* split, join, startsWith, includes and endsWith are computed on          *)
(* characters as the code computes them.  Paths are POSIX paths            *)
(* (path.sep = "/"); file names handed to the rule are absolute.           *)
(***************************************************************************)
EXTENDS Integers, Sequences, FiniteSets

VARIABLES variant, filename, node, reports

vars == <<variant, filename, node, reports>>

----------------------------------------------------------------------------
(* Bounds of the explored inputs.                                          *)

MaxDepth == 3
MaxUp == 2
MaxTail == 2
MaxDotLen == 3
MaxDotDepth == 2

----------------------------------------------------------------------------
(* JavaScript strings and String.prototype methods.                        *)

Sep == "/"
SepStr == <<Sep>>
DotStr == <<".">>
DotDotStr == <<".", ".">>
InternalStr == <<"i", "n", "t", "e", "r", "n", "a", "l">>

\* JavaScript null: a value no string equals.
Null == <<"null">>

\* JavaScript falsiness of a value that is a string or null.
Falsy(v) == v = Null \/ v = <<>>

StartsWith(s, p) == Len(p) <= Len(s) /\ SubSeq(s, 1, Len(p)) = p

EndsWith(s, p) == Len(p) <= Len(s) /\ SubSeq(s, Len(s) - Len(p) + 1, Len(s)) = p

Includes(s, p) ==
  \E i \in 0..Len(s) : i + Len(p) <= Len(s) /\ SubSeq(s, i + 1, i + Len(p)) = p

RECURSIVE SplitAcc(_, _, _, _)
SplitAcc(s, sep, i, cur) ==
  IF i > Len(s) THEN <<cur>>
  ELSE IF s[i] = sep THEN <<cur>> \o SplitAcc(s, sep, i + 1, <<>>)
  ELSE SplitAcc(s, sep, i + 1, Append(cur, s[i]))

\* s.split(sep) for a one-character separator.
Split(s, sep) == SplitAcc(s, sep, 1, <<>>)

RECURSIVE Join(_, _)
\* parts.join(sep)
Join(parts, sep) ==
  IF parts = <<>> THEN <<>>
  ELSE IF Len(parts) = 1 THEN parts[1]
  ELSE parts[1] \o <<sep>> \o Join(Tail(parts), sep)

\* parts.slice(0, end) for 0 <= end
Slice0(parts, end) == SubSeq(parts, 1, IF end < Len(parts) THEN end ELSE Len(parts))

Front(s) == SubSeq(s, 1, Len(s) - 1)

RECURSIVE SelectSeqOf(_, _)
\* parts.filter(part => part is not in drop)
SelectSeqOf(parts, drop) ==
  IF parts = <<>> THEN <<>>
  ELSE IF Head(parts) \in drop THEN SelectSeqOf(Tail(parts), drop)
  ELSE <<Head(parts)>> \o SelectSeqOf(Tail(parts), drop)

----------------------------------------------------------------------------
(* Node's path module, POSIX flavour.                                      *)

PathIsAbsolute(p) == Len(p) > 0 /\ p[1] = Sep

RECURSIVE NormalizeSegs(_, _)
\* normalizeString of an absolute path: drops "" and ".", ".." pops a segment
\* and stays at the root.
NormalizeSegs(segs, acc) ==
  IF segs = <<>> THEN acc
  ELSE LET h == Head(segs) IN
    IF h = <<>> \/ h = DotStr THEN NormalizeSegs(Tail(segs), acc)
    ELSE IF h = DotDotStr
      THEN NormalizeSegs(Tail(segs), IF acc = <<>> THEN acc ELSE Front(acc))
    ELSE NormalizeSegs(Tail(segs), Append(acc, h))

\* path.resolve(p) that only drops empty segments.
PathResolve_keepDots(p) ==
  SepStr \o Join(SelectSeqOf(Split(p, Sep), {<<>>}), Sep)

\* path.resolve(p) for an absolute p.
PathResolve(p) == SepStr \o Join(NormalizeSegs(Split(p, Sep), <<>>), Sep)

\* path.resolve(from, to) for an absolute from.
PathResolve2(from, to) ==
  IF PathIsAbsolute(to) THEN PathResolve(to)
  ELSE PathResolve(from \o SepStr \o to)

\* path.dirname(p) for an absolute p without a trailing separator.
PathDirname(p) ==
  LET parts == Split(p, Sep)
      dir == Join(Front(parts), Sep)
  IN IF dir = <<>> THEN SepStr ELSE dir

RECURSIVE CommonLen(_, _)
CommonLen(a, b) ==
  IF a = <<>> \/ b = <<>> THEN 0
  ELSE IF Head(a) = Head(b) THEN 1 + CommonLen(Tail(a), Tail(b))
  ELSE 0

\* path.relative(from, to): one ".." per segment of from below the common
\* prefix, then the segments of to below it.
PathRelative(from, to) ==
  LET f == NormalizeSegs(Split(from, Sep), <<>>)
      t == NormalizeSegs(Split(to, Sep), <<>>)
      c == CommonLen(f, t)
  IN Join([i \in 1..(Len(f) - c) |-> DotDotStr] \o SubSeq(t, c + 1, Len(t)), Sep)

----------------------------------------------------------------------------
(* Helpers shared by the three versions of the rule.                       *)

RECURSIVE ScanInternal(_, _)
\* for (let i = parts.length - 1; i >= 0; i--) if (parts[i] === 'internal') ...
\* with JavaScript's 0-based index i; -1 when no part equals 'internal'.
ScanInternal(parts, i) ==
  IF i < 0 THEN -1
  ELSE IF parts[i + 1] = InternalStr THEN i
  ELSE ScanInternal(parts, i - 1)

RECURSIVE ScanInternalForward(_, _)
ScanInternalForward(parts, i) ==
  IF i >= Len(parts) THEN -1
  ELSE IF parts[i + 1] = InternalStr THEN i
  ELSE ScanInternalForward(parts, i + 1)

\* The scan run from the front: the first 'internal' instead of the last.
firstInternalIndex(parts) == ScanInternalForward(parts, 0)

lastInternalIndex(parts) == ScanInternal(parts, Len(parts) - 1)

\* resolveImportPath resolving against the file instead of its directory.
resolveImportPath_noDirname(importPath, currentFilePath) ==
  PathResolve2(currentFilePath, importPath)

resolveImportPath(importPath, currentFilePath) ==
  LET currentDir == PathDirname(currentFilePath)
  IN PathResolve2(currentDir, importPath)

\* context.report({ node, messageId: 'crossInternalImport' })
Report(at) == [messageId |-> "crossInternalImport", node |-> at]

\* resolvedImportPath.includes(sep + 'internal' + sep) ||
\* resolvedImportPath.endsWith(sep + 'internal')
mentionsInternal(resolvedImportPath) ==
  \/ Includes(resolvedImportPath, SepStr \o InternalStr \o SepStr)
  \/ EndsWith(resolvedImportPath, SepStr \o InternalStr)

----------------------------------------------------------------------------
(* First version: plain containment in the module root.                    *)

isImportAllowed(importerPath, importeePath) ==
  LET normalizedImporteePath == PathResolve(importeePath)
      parts == Split(normalizedImporteePath, Sep)
      idx == lastInternalIndex(parts)
  IN IF idx = -1 THEN TRUE
     ELSE LET moduleRootPath == Join(Slice0(parts, idx), Sep)
              normalizedImporterPath == PathResolve(importerPath)
          IN \/ StartsWith(normalizedImporterPath, moduleRootPath \o SepStr)
             \/ normalizedImporterPath = moduleRootPath

checkImport1(importPath, currentFilePath, at) ==
  IF ~StartsWith(importPath, DotStr) THEN <<>>
  ELSE LET resolvedImportPath == resolveImportPath(importPath, currentFilePath)
       IN IF ~mentionsInternal(resolvedImportPath) THEN <<>>
          ELSE IF ~isImportAllowed(currentFilePath, resolvedImportPath)
            THEN <<Report(at)>>
          ELSE <<>>

----------------------------------------------------------------------------
(* Second version: containment in the module root, inlined.                *)

checkImport2(importPath, currentFilePath, at) ==
  IF ~StartsWith(importPath, DotStr) THEN <<>>
  ELSE LET importeePath == PathResolve2(PathDirname(currentFilePath), importPath)
           parts == Split(importeePath, Sep)
           idx == lastInternalIndex(parts)
       IN IF idx = -1 THEN <<>>
          ELSE LET moduleRootPath == Join(Slice0(parts, idx), Sep)
                   importerPath == PathResolve(currentFilePath)
               IN IF StartsWith(importerPath, moduleRootPath \o SepStr) THEN <<>>
                  ELSE <<Report(at)>>

----------------------------------------------------------------------------
(* Third version: same-internal-directory short circuit, containment in    *)
(* the module root and the submodule-depth check.                          *)

\* isSubPath without the test for a relative path that climbs out of the parent.
isSubPath_noClimbTest(childPath, parentPath) ==
  LET normalizedChild == PathResolve(childPath)
      normalizedParent == PathResolve(parentPath)
  IN IF normalizedChild = normalizedParent THEN TRUE
     ELSE LET relative == PathRelative(normalizedParent, normalizedChild)
          IN ~Falsy(relative) /\ ~PathIsAbsolute(relative)

\* isSubPath as a comparison of string prefixes.
isSubPath_stringPrefix(childPath, parentPath) ==
  StartsWith(PathResolve(childPath), PathResolve(parentPath))

isSubPath(childPath, parentPath) ==
  LET normalizedChild == PathResolve(childPath)
      normalizedParent == PathResolve(parentPath)
  IN IF normalizedChild = normalizedParent THEN TRUE
     ELSE LET relative == PathRelative(normalizedParent, normalizedChild)
          IN /\ ~Falsy(relative)
             /\ ~StartsWith(relative, DotDotStr)
             /\ ~PathIsAbsolute(relative)

findInternalRoot(importPath) ==
  LET normalizedPath == PathResolve(importPath)
      parts == Split(normalizedPath, Sep)
      idx == lastInternalIndex(parts)
  IN IF idx = -1 THEN Null
     ELSE LET internalRoot == Join(Slice0(parts, idx), Sep)
          IN IF Falsy(internalRoot) THEN SepStr ELSE internalRoot

findInternalDirectory(filePath) ==
  LET normalizedPath == PathResolve(filePath)
      parts == Split(normalizedPath, Sep)
      idx == lastInternalIndex(parts)
  IN IF idx = -1 THEN Null
     ELSE Join(Slice0(parts, idx + 1), Sep)

\* areInSameInternalDirectory satisfied with any two internal directories.
areInSameInternalDirectory_anyInternal(importerPath, importeePath) ==
  LET importerInternalDir == findInternalDirectory(importerPath)
      importeeInternalDir == findInternalDirectory(importeePath)
  IN ~(Falsy(importerInternalDir) \/ Falsy(importeeInternalDir))

\* areInSameInternalDirectory comparing the files' own directories.
areInSameInternalDirectory_sameDir(importerPath, importeePath) ==
  LET importerInternalDir == findInternalDirectory(importerPath)
      importeeInternalDir == findInternalDirectory(importeePath)
  IN IF Falsy(importerInternalDir) \/ Falsy(importeeInternalDir) THEN FALSE
     ELSE PathDirname(importerPath) = PathDirname(importeePath)

areInSameInternalDirectory(importerPath, importeePath) ==
  LET importerInternalDir == findInternalDirectory(importerPath)
      importeeInternalDir == findInternalDirectory(importeePath)
  IN IF Falsy(importerInternalDir) \/ Falsy(importeeInternalDir) THEN FALSE
     ELSE importerInternalDir = importeeInternalDir

\* importDeclaration3 without the same-internal-directory short circuit.
importDeclaration3_noShortCircuit(importPath, currentFilePath) ==
  IF ~StartsWith(importPath, DotStr) THEN <<>>
  ELSE LET resolvedImportPath == resolveImportPath(importPath, currentFilePath)
       IN IF ~mentionsInternal(resolvedImportPath) THEN <<>>
          ELSE LET internalRoot == findInternalRoot(resolvedImportPath)
               IN IF Falsy(internalRoot) THEN <<>>
                  ELSE LET importerPath == PathDirname(currentFilePath)
                       IN IF ~isSubPath(importerPath, internalRoot)
                            THEN <<Report("source")>>
                          ELSE LET relativePath ==
                                     PathRelative(internalRoot, importerPath)
                                   parts ==
                                     SelectSeqOf(Split(relativePath, Sep),
                                                 {<<>>, DotStr, DotDotStr})
                               IN IF ~Falsy(relativePath) /\ Len(parts) > 1
                                    THEN <<Report("source")>>
                                  ELSE <<>>

\* importDeclaration3 with the depth check run after, not instead of, the
\* containment check.
importDeclaration3_noElse(importPath, currentFilePath) ==
  IF ~StartsWith(importPath, DotStr) THEN <<>>
  ELSE LET resolvedImportPath == resolveImportPath(importPath, currentFilePath)
       IN IF ~mentionsInternal(resolvedImportPath) THEN <<>>
          ELSE IF areInSameInternalDirectory(currentFilePath, resolvedImportPath)
            THEN <<>>
          ELSE LET internalRoot == findInternalRoot(resolvedImportPath)
               IN IF Falsy(internalRoot) THEN <<>>
                  ELSE LET importerPath == PathDirname(currentFilePath)
                       IN (IF ~isSubPath(importerPath, internalRoot)
                            THEN <<Report("source")>>
                          ELSE <<>>)
                          \o
                          (LET relativePath ==
                                 PathRelative(internalRoot, importerPath)
                               parts ==
                                 SelectSeqOf(Split(relativePath, Sep),
                                             {<<>>, DotStr, DotDotStr})
                           IN IF ~Falsy(relativePath) /\ Len(parts) > 1
                                THEN <<Report("source")>>
                              ELSE <<>>)

\* The body of the ImportDeclaration handler: the diagnostics it reports.
importDeclaration3(importPath, currentFilePath) ==
  IF ~StartsWith(importPath, DotStr) THEN <<>>
  ELSE LET resolvedImportPath == resolveImportPath(importPath, currentFilePath)
       IN IF ~mentionsInternal(resolvedImportPath) THEN <<>>
          ELSE IF areInSameInternalDirectory(currentFilePath, resolvedImportPath)
            THEN <<>>
          ELSE LET internalRoot == findInternalRoot(resolvedImportPath)
               IN IF Falsy(internalRoot) THEN <<>>
                  ELSE LET importerPath == PathDirname(currentFilePath)
                       IN IF ~isSubPath(importerPath, internalRoot)
                            THEN <<Report("source")>>
                          ELSE LET relativePath ==
                                     PathRelative(internalRoot, importerPath)
                                   parts ==
                                     SelectSeqOf(Split(relativePath, Sep),
                                                 {<<>>, DotStr, DotDotStr})
                               IN IF ~Falsy(relativePath) /\ Len(parts) > 1
                                    THEN <<Report("source")>>
                                  ELSE <<>>

\* callExpression3 without the test for a relative specifier.
callExpression3_unguarded(importPath, currentFilePath) ==
  LET resolvedImportPath == resolveImportPath(importPath, currentFilePath)
       IN IF ~mentionsInternal(resolvedImportPath) THEN <<>>
          ELSE IF areInSameInternalDirectory(currentFilePath, resolvedImportPath)
            THEN <<>>
          ELSE LET internalRoot == findInternalRoot(resolvedImportPath)
               IN IF Falsy(internalRoot) THEN <<>>
                  ELSE LET importerPath == PathDirname(currentFilePath)
                       IN IF ~isSubPath(importerPath, internalRoot)
                            THEN <<Report("arguments[0]")>>
                          ELSE LET relativePath ==
                                     PathRelative(internalRoot, importerPath)
                                   parts ==
                                     SelectSeqOf(Split(relativePath, Sep),
                                                 {<<>>, DotStr, DotDotStr})
                               IN IF ~Falsy(relativePath) /\ Len(parts) > 1
                                    THEN <<Report("arguments[0]")>>
                                  ELSE <<>>

\* The CallExpression handler without the submodule-depth check of lines
\* 423-437.
callExpression3_noDepthCheck(importPath, currentFilePath) ==
  IF ~StartsWith(importPath, DotStr) THEN <<>>
  ELSE LET resolvedImportPath == resolveImportPath(importPath, currentFilePath)
       IN IF ~mentionsInternal(resolvedImportPath) THEN <<>>
          ELSE IF areInSameInternalDirectory(currentFilePath, resolvedImportPath)
            THEN <<>>
          ELSE LET internalRoot == findInternalRoot(resolvedImportPath)
               IN IF Falsy(internalRoot) THEN <<>>
                  ELSE LET importerPath == PathDirname(currentFilePath)
                       IN IF ~isSubPath(importerPath, internalRoot)
                            THEN <<Report("arguments[0]")>>
                          ELSE <<>>

\* The body of the CallExpression handler once the call is require(<literal>).
callExpression3(importPath, currentFilePath) ==
  IF ~StartsWith(importPath, DotStr) THEN <<>>
  ELSE LET resolvedImportPath == resolveImportPath(importPath, currentFilePath)
       IN IF ~mentionsInternal(resolvedImportPath) THEN <<>>
          ELSE IF areInSameInternalDirectory(currentFilePath, resolvedImportPath)
            THEN <<>>
          ELSE LET internalRoot == findInternalRoot(resolvedImportPath)
               IN IF Falsy(internalRoot) THEN <<>>
                  ELSE LET importerPath == PathDirname(currentFilePath)
                       IN IF ~isSubPath(importerPath, internalRoot)
                            THEN <<Report("arguments[0]")>>
                          ELSE LET relativePath ==
                                     PathRelative(internalRoot, importerPath)
                                   parts ==
                                     SelectSeqOf(Split(relativePath, Sep),
                                                 {<<>>, DotStr, DotDotStr})
                               IN IF ~Falsy(relativePath) /\ Len(parts) > 1
                                    THEN <<Report("arguments[0]")>>
                                  ELSE <<>>

----------------------------------------------------------------------------
(* The explored inputs: files to lint and import specifiers.               *)

\* All sequences over S of length lo..hi.
SeqsOf(S, lo, hi) == UNION {[1..k -> S] : k \in lo..hi}

NameA == <<"a">>
NameAB == <<"a", "b">>
NameDotDotA == <<".", ".", "a">>
FileName == <<"f">>

\* Directory names of the linted tree; "ab" has "a" as a string prefix and
\* "..a" is an ordinary name that begins with two dots.
DirNames == {InternalStr, NameA, NameAB, NameDotDotA}

\* Names used below the leading "." / ".." of a specifier.
TailNames == {InternalStr, NameA}

\* Absolute paths of the linted files: a file f in a directory at most
\* MaxDepth levels below the filesystem root.
Files ==
  {SepStr \o Join(d \o <<FileName>>, Sep) : d \in SeqsOf(DirNames, 0, MaxDepth)}

\* "./t", "../t", "../../t", ...; "." and ".." themselves when t is empty.
RelativeSpecifiers ==
  {Join((IF k = 0 THEN <<DotStr>> ELSE [i \in 1..k |-> DotDotStr]) \o t, Sep) :
     k \in 0..MaxUp, t \in SeqsOf(TailNames, 0, MaxTail)}

\* Package-style and absolute specifiers: none begins with ".".
OtherSpecifiers ==
  { Join(<<NameA>>, Sep),
    Join(<<NameA, InternalStr, NameA>>, Sep),
    Join(<<InternalStr, NameA>>, Sep),
    SepStr \o Join(<<NameA, InternalStr, NameA>>, Sep) }

Specifiers == RelativeSpecifiers \cup OtherSpecifiers

Variants == {1, 2, 3}

\* The shapes of a call: callee name, number of arguments, type of the first.
CallShapes ==
  { [callee |-> "require", nargs |-> 1, argType |-> "Literal"],
    [callee |-> "require", nargs |-> 2, argType |-> "Literal"],
    [callee |-> "require", nargs |-> 1, argType |-> "Identifier"],
    [callee |-> "other", nargs |-> 1, argType |-> "Literal"] }

ProgramNode ==
  [type |-> "Program", callee |-> "", nargs |-> 0, argType |-> "", value |-> <<>>]

ImportNode(v) ==
  [type |-> "ImportDeclaration", callee |-> "", nargs |-> 0, argType |-> "",
   value |-> v]

CallNode(shape, v) ==
  [type |-> "CallExpression", callee |-> shape.callee, nargs |-> shape.nargs,
   argType |-> shape.argType, value |-> v]

----------------------------------------------------------------------------
(* The handlers of the loaded version.                                     *)

\* ImportDeclaration(node): importPath = node.source.value
onImportDeclaration(v, n, currentFilePath) ==
  IF v = 1 THEN checkImport1(n.value, currentFilePath, "source")
  ELSE IF v = 2 THEN checkImport2(n.value, currentFilePath, "source")
  ELSE importDeclaration3(n.value, currentFilePath)

\* CallExpression(node): only require(<one literal>) is looked at
onCallExpression(v, n, currentFilePath) ==
  IF n.callee = "require" /\ n.nargs = 1 /\ n.argType = "Literal"
    THEN IF v = 1 THEN checkImport1(n.value, currentFilePath, "arguments[0]")
         ELSE IF v = 2 THEN checkImport2(n.value, currentFilePath, "arguments[0]")
         ELSE callExpression3(n.value, currentFilePath)
  ELSE <<>>

----------------------------------------------------------------------------
(* The state machine.                                                      *)

Init ==
  /\ variant \in Variants
  /\ filename \in Files
  /\ node = ProgramNode
  /\ reports = <<>>

\* create(context): the traversal of the previous file is over and the rule
\* is instantiated for the next file to lint.
Create ==
  /\ node = ProgramNode
  /\ filename' \in Files
  /\ node' = ProgramNode
  /\ reports' = <<>>
  /\ UNCHANGED variant

\* The traversal reaches an import declaration.
ImportDeclaration ==
  /\ node = ProgramNode
  /\ \E v \in Specifiers :
       /\ node' = ImportNode(v)
       /\ reports' = onImportDeclaration(variant, ImportNode(v), filename)
  /\ UNCHANGED <<variant, filename>>

\* The traversal reaches a call expression.
CallExpression ==
  /\ node = ProgramNode
  /\ \E shape \in CallShapes, v \in Specifiers :
       /\ node' = CallNode(shape, v)
       /\ reports' = onCallExpression(variant, CallNode(shape, v), filename)
  /\ UNCHANGED <<variant, filename>>

\* The traversal leaves the node; the host has taken the node's reports.
LeaveNode ==
  /\ node # ProgramNode
  /\ node' = ProgramNode
  /\ reports' = <<>>
  /\ UNCHANGED <<variant, filename>>

Next == Create \/ ImportDeclaration \/ CallExpression \/ LeaveNode

Spec == Init /\ [][Next]_vars

----------------------------------------------------------------------------
(* The same rule fed with specifiers that carry "", "." and ".." anywhere  *)
(* in the path, to exercise path.resolve.                                   *)

\* Segments of such a specifier: names, ".", ".." and the empty segment of a
\* doubled or trailing separator.
DottedNames == {DotStr, DotDotStr, <<>>, NameA, InternalStr}

\* Specifiers of 1..MaxDotLen segments that begin with "." or "..".
DottedSpecifiers ==
  {Join(t, Sep) :
     t \in {u \in SeqsOf(DottedNames, 1, MaxDotLen) : u[1] \in {DotStr, DotDotStr}}}

\* Linted files at most MaxDotDepth directories below the filesystem root.
ShallowFiles ==
  {SepStr \o Join(d \o <<FileName>>, Sep) : d \in SeqsOf(DirNames, 0, MaxDotDepth)}

InitDotted ==
  /\ variant = 3
  /\ filename \in ShallowFiles
  /\ node = ProgramNode
  /\ reports = <<>>

CreateDotted ==
  /\ node = ProgramNode
  /\ filename' \in ShallowFiles
  /\ node' = ProgramNode
  /\ reports' = <<>>
  /\ UNCHANGED variant

ImportDeclarationDotted ==
  /\ node = ProgramNode
  /\ \E v \in DottedSpecifiers :
       /\ node' = ImportNode(v)
       /\ reports' = onImportDeclaration(variant, ImportNode(v), filename)
  /\ UNCHANGED <<variant, filename>>

CallExpressionDotted ==
  /\ node = ProgramNode
  /\ \E shape \in CallShapes, v \in DottedSpecifiers :
       /\ node' = CallNode(shape, v)
       /\ reports' = onCallExpression(variant, CallNode(shape, v), filename)
  /\ UNCHANGED <<variant, filename>>

NextDotted ==
  CreateDotted \/ ImportDeclarationDotted \/ CallExpressionDotted \/ LeaveNode

SpecDotted == InitDotted /\ [][NextDotted]_vars

----------------------------------------------------------------------------
(* Vocabulary of the properties: paths as lists of segments.               *)

\* The segments of an absolute, normalized path.
Segments(p) == SelectSeqOf(Split(p, Sep), {<<>>})

ToPath(segs) == SepStr \o Join(segs, Sep)

IsPrefixOf(a, b) == Len(a) <= Len(b) /\ SubSeq(b, 1, Len(a)) = a

HasInternal(segs) == \E i \in 1..Len(segs) : segs[i] = InternalStr

CountInternal(segs) == Cardinality({i \in 1..Len(segs) : segs[i] = InternalStr})

\* Position of the last segment equal to 'internal' (HasInternal(segs) assumed).
LastInternal(segs) ==
  CHOOSE i \in 1..Len(segs) :
    /\ segs[i] = InternalStr
    /\ \A j \in (i + 1)..Len(segs) : segs[j] # InternalStr

FirstInternal(segs) ==
  CHOOSE i \in 1..Len(segs) :
    /\ segs[i] = InternalStr
    /\ \A j \in 1..(i - 1) : segs[j] # InternalStr

GoverningInternalDir(segs) == SubSeq(segs, 1, LastInternal(segs))

ModuleRoot(segs) == SubSeq(segs, 1, LastInternal(segs) - 1)

\* A handler has run its check on the current node.
HandlerRan ==
  \/ node.type = "ImportDeclaration"
  \/ /\ node.type = "CallExpression"
     /\ node.callee = "require" /\ node.nargs = 1 /\ node.argType = "Literal"

Canonical == variant = 3

Relative == StartsWith(node.value, DotStr)

ImporterSegs == Segments(filename)

ImporterDirSegs == Front(ImporterSegs)

\* The import specifier resolved against the directory of the importing file.
TargetSegs == Segments(PathResolve2(PathDirname(filename), node.value))

TargetRoot == ModuleRoot(TargetSegs)

SameInternal ==
  /\ HasInternal(ImporterSegs)
  /\ HasInternal(TargetSegs)
  /\ GoverningInternalDir(ImporterSegs) = GoverningInternalDir(TargetSegs)

\* The importer's directory is in the tree rooted at the target's module root.
InsideRoot == IsPrefixOf(TargetRoot, ImporterDirSegs)

\* Directory levels of the importer's directory below the module root.
LevelsBelowRoot == Len(ImporterDirSegs) - Len(TargetRoot)

Denied == \E i \in 1..Len(reports) : reports[i].messageId = "crossInternalImport"

Allowed == reports = <<>>

\* A relative import of a target governed by an internal directory, checked
\* by the third version of the rule.
InternalImport == Canonical /\ HandlerRan /\ Relative /\ HasInternal(TargetSegs)

----------------------------------------------------------------------------
(* Properties.                                                             *)

\* C1: a relative import whose target is governed by an internal directory
\* is reported when the importer's directory is not in the tree rooted at
\* the target's module root and the importer does not share the target's
\* governing internal directory.
C1_OutsideModuleRootDenied ==
  (InternalImport /\ ~InsideRoot /\ ~SameInternal) => Denied

\* C1 witness: the importer sits in a proper ancestor of the module root and
\* the import is reported.
C1_Witness ==
  /\ InternalImport /\ ~InsideRoot /\ ~SameInternal
  /\ IsPrefixOf(ImporterDirSegs, TargetRoot)
  /\ Len(ImporterDirSegs) >= 1
  /\ Denied

\* C2: a relative import whose resolved target has no segment equal to
\* 'internal' is never reported, wherever the importer is.
C2_NoInternalAllowed ==
  (Canonical /\ HandlerRan /\ Relative /\ ~HasInternal(TargetSegs)) => Allowed

\* C2 witness: the importer is itself two levels inside internal directories,
\* the target has no internal segment, and nothing is reported.
C2_Witness ==
  /\ Canonical /\ HandlerRan /\ Relative /\ ~HasInternal(TargetSegs)
  /\ CountInternal(ImporterDirSegs) >= 2
  /\ Len(TargetSegs) >= 1
  /\ Allowed

\* C3: when the importer file and the target have the same governing
\* internal directory the import is not reported, however deep either of
\* them sits below that directory.
C3_SelfAccess ==
  (Canonical /\ HandlerRan /\ Relative /\ SameInternal) => Allowed

\* C3 witness: importer and target share the governing internal directory,
\* the importer's directory is two or more levels below the module root (the
\* depth at which the submodule check reports), and nothing is reported.
C3_Witness ==
  /\ Canonical /\ HandlerRan /\ Relative /\ SameInternal
  /\ LevelsBelowRoot >= 2
  /\ Len(TargetSegs) > Len(GoverningInternalDir(TargetSegs))
  /\ Allowed

\* C4 (as claimed): for an importer that does not share the target's internal
\* directory and whose directory is in the tree of the module root R, the
\* import is unreported if and only if that directory is R or one level
\* below R.
C4_DepthCutoff ==
  (InternalImport /\ ~SameInternal /\ InsideRoot)
    => (Allowed <=> LevelsBelowRoot <= 1)

\* No directory of the importer has a name that begins with "..".
PlainImporter ==
  \A i \in 1..Len(ImporterDirSegs) : ~StartsWith(ImporterDirSegs[i], DotDotStr)

\* C4, supporting fact: the claimed cutoff is what the rule computes whenever
\* the importer's first directory below the module root does not begin
\* with "..".
C4_DepthCutoffPlainNames ==
  (InternalImport /\ ~SameInternal /\ InsideRoot
     /\ (LevelsBelowRoot >= 1
           => ~StartsWith(ImporterDirSegs[Len(TargetRoot) + 1], DotDotStr)))
    => (Allowed <=> LevelsBelowRoot <= 1)

\* C5 (as claimed): an importer anywhere in the tree rooted at the target's
\* module root, two or more levels below it included, is not reported.
\* Stated for importers whose directory names are plain; names that begin
\* with ".." are the matter of C4.
C5_WholeTreeAllowed ==
  (InternalImport /\ InsideRoot /\ PlainImporter) => Allowed

\* The module root the first 'internal' segment of the target would give.
TargetFirstRoot == SubSeq(TargetSegs, 1, FirstInternal(TargetSegs) - 1)

\* C6: when the target has two or more 'internal' segments, the internal
\* directory found is the prefix ending at the last of them, the module root
\* the prefix before it, and an importer under the first one's parent but
\* outside the last one's parent is reported.
C6_LastInternalWins ==
  (InternalImport /\ CountInternal(TargetSegs) >= 2) =>
    /\ findInternalDirectory(ToPath(TargetSegs))
         = ToPath(GoverningInternalDir(TargetSegs))
    /\ findInternalRoot(ToPath(TargetSegs)) = ToPath(TargetRoot)
    /\ (IsPrefixOf(TargetFirstRoot, ImporterDirSegs) /\ ~InsideRoot) => Denied

\* C6 witness: two 'internal' segments in the target, the importer is under
\* the parent of the first and outside the parent of the last, and is reported.
C6_Witness ==
  /\ InternalImport /\ CountInternal(TargetSegs) >= 2
  /\ IsPrefixOf(TargetFirstRoot, ImporterDirSegs) /\ ~InsideRoot
  /\ Len(TargetFirstRoot) >= 1
  /\ Denied

\* Importer file and target both lie strictly below the directory made of the
\* first i segments, and that directory is named 'internal'.
BothBeneathInternalAt(i) ==
  /\ i < Len(ImporterSegs) /\ i < Len(TargetSegs)
  /\ ImporterSegs[i] = InternalStr
  /\ SubSeq(ImporterSegs, 1, i) = SubSeq(TargetSegs, 1, i)

NoInternalAfter(segs, i) == \A j \in (i + 1)..Len(segs) : segs[j] # InternalStr

\* C7 (as claimed): importer file and target beneath one and the same
\* directory named 'internal', at any depth below it, are never reported.
C7_BeneathSameInternal ==
  (Canonical /\ HandlerRan /\ Relative
     /\ \E i \in 1..Len(ImporterSegs) : BothBeneathInternalAt(i))
    => Allowed

\* C7 (amended): importer file and target beneath one and the same directory
\* named 'internal', with no further 'internal' segment below it in either
\* path, are never reported, at any depth below it.
C7_BeneathSameLastInternal ==
  (Canonical /\ HandlerRan /\ Relative
     /\ \E i \in 1..Len(ImporterSegs) :
          /\ BothBeneathInternalAt(i)
          /\ NoInternalAfter(ImporterSegs, i)
          /\ NoInternalAfter(TargetSegs, i))
    => Allowed

\* C7 witness: the importer's directory and the target are each two or more
\* levels below their common last 'internal' directory; nothing is reported.
C7_Witness ==
  /\ Canonical /\ HandlerRan /\ Relative
  /\ \E i \in 1..Len(ImporterSegs) :
       /\ BothBeneathInternalAt(i)
       /\ NoInternalAfter(ImporterSegs, i)
       /\ NoInternalAfter(TargetSegs, i)
       /\ Len(ImporterDirSegs) >= i + 2
       /\ Len(TargetSegs) >= i + 2
  /\ Allowed

\* The importer's directory leaves the module root R at R's last segment,
\* through a sibling whose name merely begins with that segment's name.
PartialSegmentSibling ==
  LET n == Len(TargetRoot) IN
  /\ n >= 1 /\ Len(ImporterDirSegs) >= n
  /\ SubSeq(ImporterDirSegs, 1, n - 1) = SubSeq(TargetRoot, 1, n - 1)
  /\ ImporterDirSegs[n] # TargetRoot[n]
  /\ StartsWith(ImporterDirSegs[n], TargetRoot[n])

\* C8: in every version of the rule, a module root never contains a directory
\* whose name only has the root's last segment as a string prefix: isSubPath
\* is false and an import from there of the root's internal is reported.
C8_BoundaryExact ==
  (HandlerRan /\ Relative /\ HasInternal(TargetSegs) /\ PartialSegmentSibling)
    => /\ Denied
       /\ ~isSubPath(ToPath(ImporterDirSegs), ToPath(TargetRoot))

\* C8 witness: the third version reports an import from such a sibling.
C8_Witness ==
  /\ InternalImport /\ PartialSegmentSibling
  /\ Denied

\* C9: a specifier that does not begin with '.' is never reported, by either
\* handler of any version, even when it has a segment 'internal'.
C9_NonRelativeSkipped ==
  (HandlerRan /\ ~Relative) => Allowed

\* C9 witness: a require call of the third version with a package-style
\* specifier that has a segment 'internal'; nothing is reported.
C9_Witness ==
  /\ Canonical /\ HandlerRan /\ ~Relative
  /\ node.type = "CallExpression"
  /\ ~PathIsAbsolute(node.value)
  /\ \E i \in 1..Len(Split(node.value, Sep)) :
       Split(node.value, Sep)[i] = InternalStr
  /\ Allowed

\* The import is one the rule regulates: relative, governed by an internal
\* directory the importer does not share.
Regulated == Relative /\ HasInternal(TargetSegs) /\ ~SameInternal

\* The condition of the outside-module-root branch.
OutsideBranch == ~isSubPath(ToPath(ImporterDirSegs), ToPath(TargetRoot))

\* The condition of the submodule-depth branch: more than one named segment
\* in the importer's directory relative to the module root.
DepthBranch ==
  Len(SelectSeqOf(Split(PathRelative(ToPath(TargetRoot), ToPath(ImporterDirSegs)),
                        Sep),
                  {<<>>, DotStr, DotDotStr})) > 1

\* The node a diagnostic of the current node belongs at.
ImportSite ==
  IF node.type = "ImportDeclaration" THEN "source" ELSE "arguments[0]"

\* C10: a handler of the third version reports at most one diagnostic per
\* node; it reports one, crossInternalImport at the import site, exactly when
\* the import is regulated and one of the two deny conditions holds; both
\* conditions holding still gives a single diagnostic.
C10_SingleDiagnostic ==
  (Canonical /\ HandlerRan) =>
    /\ Len(reports) <= 1
    /\ (Len(reports) = 1) <=> (Regulated /\ (OutsideBranch \/ DepthBranch))
    /\ \A i \in 1..Len(reports) : reports[i] = Report(ImportSite)

\* C10 witness: both deny conditions hold for the node and exactly one
\* diagnostic is reported.
C10_Witness ==
  /\ Canonical /\ HandlerRan /\ Regulated
  /\ OutsideBranch /\ DepthBranch
  /\ reports = <<Report(ImportSite)>>

\* The shape of a call the CallExpression handler looks at.
RequireShape == [callee |-> "require", nargs |-> 1, argType |-> "Literal"]

\* What the two handlers of the loaded version report for the current
\* node's specifier in the current file.
AsImport == onImportDeclaration(variant, ImportNode(node.value), filename)

AsRequire ==
  onCallExpression(variant, CallNode(RequireShape, node.value), filename)

\* What the handler that did not run on the current node reports for it;
\* reports holds what the handler that ran reported.
OtherHandler == IF node.type = "ImportDeclaration" THEN AsRequire ELSE AsImport

\* C11: for the same file and the same specifier, the ImportDeclaration
\* handler reports a diagnostic if and only if the CallExpression handler
\* does for require(<that literal>), and each reports as many.
C11_ImportRequireAgree ==
  HandlerRan =>
    /\ Denied <=> (OtherHandler # <<>>)
    /\ Len(reports) = Len(OtherHandler)

\* C11 witness: a require call of the third version is reported, and the
\* import declaration of the same specifier would be too.
C11_Witness ==
  /\ Canonical /\ HandlerRan
  /\ node.type = "CallExpression"
  /\ Denied
  /\ AsImport # <<>>

\* The path the handler works on: the specifier resolved against the
\* importing file's directory.
NormalizedTarget == resolveImportPath(node.value, filename)

\* The specifier's segments as written.
WrittenSegs == Split(node.value, Sep)

\* C12: normalising is idempotent and leaves no "." or ".." segment: the
\* resolved path of a relative specifier, resolved again (by
\* resolveImportPath, or by the path.resolve that isSubPath and
\* findInternalRoot apply to it), is returned unchanged, and none of its
\* segments is "", "." or "..".
C12_NormalizeIdempotent ==
  (HandlerRan /\ Relative) =>
    /\ resolveImportPath(NormalizedTarget, filename) = NormalizedTarget
    /\ PathResolve(NormalizedTarget) = NormalizedTarget
    /\ PathIsAbsolute(NormalizedTarget)
    /\ \A i \in 1..Len(Segments(NormalizedTarget)) :
         Segments(NormalizedTarget)[i] \notin {DotStr, DotDotStr}
    /\ NormalizedTarget = ToPath(Segments(NormalizedTarget))

\* C12 witness: the specifier begins with "." and has a ".." after a name,
\* so normalising changes the path.
C12_Witness ==
  /\ HandlerRan /\ Relative
  /\ WrittenSegs[1] = DotStr
  /\ \E i \in 2..Len(WrittenSegs) :
       /\ WrittenSegs[i] = DotDotStr
       /\ WrittenSegs[i - 1] \in {NameA, InternalStr}
  /\ NormalizedTarget # PathDirname(filename) \o SepStr \o node.value

\* What the first and the second version report for the current node.
SimpleReports == checkImport1(node.value, filename, ImportSite)

InlinedReports == checkImport2(node.value, filename, ImportSite)

\* C13: every import the first version (isImportAllowed) or the second
\* reports is reported by the third; in particular an import the third
\* version lets through by its same-internal short circuit is one that plain
\* containment in the module root allows.
C13_RefinedSubsumesSimple ==
  (Canonical /\ HandlerRan) =>
    /\ (SimpleReports # <<>>) => Denied
    /\ (InlinedReports # <<>>) => Denied
    /\ (Relative /\ SameInternal) =>
         /\ Allowed
         /\ isImportAllowed(filename, ToPath(TargetSegs))

\* C13 witness: the first version reports the import and so does the third.
C13_Witness ==
  /\ Canonical /\ HandlerRan /\ Regulated
  /\ SimpleReports # <<>>
  /\ Denied

\* The target's last 'internal' is the first segment below the filesystem
\* root.
RootCase == InternalImport /\ LastInternal(TargetSegs) = 1

\* C14 (as claimed): in the filesystem-root case the module root found is
\* the filesystem root, the outside-module-root condition never holds, and
\* the import is reported exactly when the importer does not share the
\* internal directory and sits two or more levels below the root.
C14_RootCase ==
  RootCase =>
    /\ findInternalRoot(ToPath(TargetSegs)) = SepStr
    /\ ~OutsideBranch
    /\ Denied <=> (~SameInternal /\ LevelsBelowRoot > 1)

\* C14, supporting fact: the claim is what the rule computes whenever the
\* importer's first directory does not begin with "..".
C14_RootCasePlainNames ==
  (RootCase /\ (Len(ImporterDirSegs) >= 1
                  => ~StartsWith(ImporterDirSegs[1], DotDotStr))) =>
    /\ findInternalRoot(ToPath(TargetSegs)) = SepStr
    /\ ~OutsideBranch
    /\ Denied <=> (~SameInternal /\ LevelsBelowRoot > 1)

====
